---- MODULE Spec2Model ----
(***************************************************************************)
(* Model of the dulichxanh backend (src/index.js): the authentication      *)
(* gate, registration and login, the post lifecycle, the public read       *)
(* routes and the home feed.                                               *)
(*                                                                         *)
(* A JSON object is a function whose domain is the set of the fields that  *)
(* are present; a field that is absent (undefined) is outside the domain.  *)
(* A text value is the sequence of its characters.  An HTTP header value   *)
(* is the sequence of the segments that split(" ") returns for it.         *)
(***************************************************************************)
EXTENDS FiniteSets, Integers, Sequences, TLC

VARIABLES users, posts, nextId, creator, pcs, req, resp

vars == <<users, posts, nextId, creator, pcs, req, resp>>

(***************************************************************************)
(* Bounds of the model.                                                    *)
(***************************************************************************)
MaxPosts == 2
MaxProcs == 2
MaxFeedPosts == 4
MaxTied == 2

(***************************************************************************)
(* Program constants.                                                      *)
(***************************************************************************)
JWT_SECRET == "dev_secret"
SectionLimit == 4
RecentFrom == 1
RecentTo == 3

(***************************************************************************)
(* Generic helpers.                                                        *)
(***************************************************************************)
Has(obj, f) == f \in DOMAIN obj

\* obj with the fields of upd written over it (a $set, or an object spread)
Merge(obj, upd) ==
  [f \in DOMAIN obj \cup DOMAIN upd |-> IF f \in DOMAIN upd THEN upd[f] ELSE obj[f]]

Restrict(obj, fs) == [f \in DOMAIN obj \cap fs |-> obj[f]]

Range(s) == {s[i] : i \in 1..Len(s)}

\* Array.prototype.slice(from, to) with 0-based, end-exclusive indices
Slice(s, from, to) ==
  LET hi == IF to < Len(s) THEN to ELSE Len(s)
  IN  IF from >= hi THEN <<>> ELSE [i \in 1..(hi - from) |-> s[from + i]]

(***************************************************************************)
(* Session tokens (jsonwebtoken).  A token is the payload together with    *)
(* the key it was signed with; any other header segment is a plain word.   *)
(***************************************************************************)
Word(w) == [word |-> w]

jwtSign(payload, secret) == [payload |-> payload, key |-> secret]

IsJwt(seg) == Has(seg, "payload")

\* jwt.verify returns the payload, or throws: TRUE iff it returns
jwtVerifies(seg, secret) == IsJwt(seg) /\ seg.key = secret

(***************************************************************************)
(* Users.                                                                  *)
(***************************************************************************)
UidStr == <<"u1", "u2", "u3", "u4">>

\* ObjectId.toString() of the n-th user id
UidToString(n) == UidStr[n]

\* bcrypt.hash(password, SALT_ROUNDS): the salt is drawn at random
bcryptHash(password, salt) == <<"$2b$10$", salt, password>>

Salts == {"s1", "s2"}

\* new User({username, passwordHash}) with the schema defaults
NewUser(n, username, hash) ==
  [_id |-> n, username |-> username, passwordHash |-> hash,
   role |-> "writer", createdAt |-> 0]

TokenPayload(user) ==
  [id |-> UidToString(user._id), username |-> user.username, role |-> user.role]

(***************************************************************************)
(* Requests and responses.                                                 *)
(***************************************************************************)
EmptyBody == [f \in {} |-> ""]

\* req.headers.authorization: undefined, or a string given by its segments
NoHeader == [present |-> FALSE, segs |-> <<>>]

Header(segs) == [present |-> TRUE, segs |-> segs]

\* the request in hand: its route, its Authorization header and, for the
\* two /auth routes, its body
Request(route, header, body) == [route |-> route, header |-> header, body |-> body]

NoHome == [highlight |-> <<>>, recent |-> <<>>, tintuc |-> <<>>,
           trainghiem |-> <<>>, guongmat |-> <<>>, gochocthuat |-> <<>>,
           multimedia |-> <<>>]

\* status 0: the handler is suspended at an await, nothing was sent yet
Response(status, error, message, docs, user, token, home) ==
  [status |-> status, error |-> error, message |-> message, docs |-> docs,
   user |-> user, token |-> token, home |-> home]

ErrorResponse(status, error) == Response(status, error, "", <<>>, <<>>, <<>>, NoHome)

Pending == ErrorResponse(0, "")

DocsResponse(docs) == Response(200, "", "", docs, <<>>, <<>>, NoHome)

MessageResponse(message, docs) == Response(200, "", message, docs, <<>>, <<>>, NoHome)

\* res.json({message, user, token}): the user document is serialised whole
AuthResponse(message, user, token) ==
  Response(200, "", message, <<>>, <<user>>, <<token>>, NoHome)

HomeResponse(home) == Response(200, "", "", <<>>, <<>>, <<>>, home)

\* requireAuth with jwt.decode in place of jwt.verify: the signature of the
\* token is not checked
requireAuthErrorUnverified(header) ==
  IF ~header.present \/ header.segs = <<Word("")>>
  THEN "Missing Authorization header"
  ELSE IF Len(header.segs) < 2 \/ header.segs[2] = Word("")
  THEN "Invalid Authorization header"
  ELSE IF ~IsJwt(header.segs[2])
  THEN "Invalid or expired token"
  ELSE ""

(***************************************************************************)
(* requireAuth: the 401 error it rejects with, or "" when it calls next(). *)
(***************************************************************************)
requireAuthError(header) ==
  IF ~header.present \/ header.segs = <<Word("")>>
  THEN "Missing Authorization header"
  ELSE IF Len(header.segs) < 2 \/ header.segs[2] = Word("")
  THEN "Invalid Authorization header"
  ELSE IF ~jwtVerifies(header.segs[2], JWT_SECRET)
  THEN "Invalid or expired token"
  ELSE ""

requireAuth(header) == requireAuthError(header) = ""

\* req.user after requireAuth has called next()
reqUser(header) == header.segs[2].payload

(***************************************************************************)
(* Posts.                                                                  *)
(***************************************************************************)
\* the paths of PostSchema; a field outside it is dropped (strict mode)
SchemaFields ==
  {"title", "sapo", "author", "authorId", "thumbnail", "tags", "content",
   "type", "emagPage", "category", "status", "createdAt"}

\* the schema defaults, and the _id mongoose assigns
PostDefaults(oid, now) ==
  [_id |-> oid, type |-> "normal", category |-> <<>>, status |-> "draft",
   createdAt |-> now]

\* new Post(data)
NewPost(data, oid, now) == Merge(PostDefaults(oid, now), Restrict(data, SchemaFields))

\* req.params.id: a string that is an ObjectId or not
ParamIds(n) ==
  {[valid |-> FALSE, oid |-> 0]} \cup {[valid |-> TRUE, oid |-> i] : i \in 1..n}

findById(id) == {p \in posts : p._id = id.oid}

\* findByIdAndUpdate that replaces the document by the update (overwrite)
UpdateByIdOverwrite(id, update) ==
  {IF p._id = id.oid
   THEN Merge([_id |-> p._id], Restrict(update, SchemaFields)) ELSE p : p \in posts}

\* findByIdAndUpdate(id, update): the stored posts afterwards
UpdateById(id, update) ==
  {IF p._id = id.oid THEN Merge(p, Restrict(update, SchemaFields)) ELSE p : p \in posts}

\* the document findByIdAndUpdate(..., {new: true}) resolves to: <<>> for null
Updated(id, update) ==
  IF findById(id) = {} THEN <<>>
  ELSE <<Merge(CHOOSE p \in posts : p._id = id.oid, Restrict(update, SchemaFields))>>

RECURSIVE NewestFirst(_)
\* the orders .sort({createdAt: -1}) may return S in: ties are in any order
NewestFirst(S) ==
  IF S = {} THEN {<<>>}
  ELSE UNION {{<<p>> \o t : t \in NewestFirst(S \ {p})} :
              p \in {x \in S : \A y \in S : y.createdAt <= x.createdAt}}

RECURSIVE AnyOrder(_)
\* the orders a find without sort may return S in
AnyOrder(S) ==
  IF S = {} THEN {<<>>}
  ELSE UNION {{<<p>> \o t : t \in AnyOrder(S \ {p})} : p \in S}

Published == {p \in posts : p.status = "published"}

(***************************************************************************)
(* Text search: {$regex: q, $options: "i"} for a q without metacharacters. *)
(***************************************************************************)
LowerChar(c) == CASE c = "A" -> "a" [] c = "B" -> "b" [] OTHER -> c

ToLower(t) == [i \in 1..Len(t) |-> LowerChar(t[i])]

RegexMatches(t, q) ==
  \E i \in 1..(Len(t) + 1) :
    /\ i + Len(q) - 1 <= Len(t)
    /\ SubSeq(ToLower(t), i, i + Len(q) - 1) = ToLower(q)

FieldMatches(p, f, q) == Has(p, f) /\ RegexMatches(p[f], q)

\* the search filter without its status condition
SearchFilterAnyStatus(p, q) ==
  \/ FieldMatches(p, "title", q)
  \/ FieldMatches(p, "sapo", q)
  \/ FieldMatches(p, "tags", q)

SearchFilter(p, q) ==
  /\ p.status = "published"
  /\ \/ FieldMatches(p, "title", q)
     \/ FieldMatches(p, "sapo", q)
     \/ FieldMatches(p, "tags", q)

CategoryFilter(p, slug) ==
  p.status = "published" /\ slug \in Range(p.category)

(***************************************************************************)
(* The home feed.                                                          *)
(***************************************************************************)
tintucLabels == {"tin-trong-nuoc", "tin-the-gioi"}
trainghiemLabels == {"am-thuc", "diem-den", "ba-lo-du-lich", "di-chuyen-xanh"}
guongmatLabels == {"nguoi-dan-xanh", "su-gia-van-hoa", "doanh-nghiep-xanh"}
gochocthuatLabels == {"cong-nghe-xanh", "tri-thuc-ben-vung", "du-lieu-chinh-sach"}
multimediaLabels == {"anh", "video", "infographic", "emagazine"}

RECURSIVE Pushes(_, _, _)
\* post.category.forEach(cat => if (labels.includes(cat)) group.push(post))
Pushes(post, cats, labels) ==
  IF cats = <<>> THEN <<>>
  ELSE (IF Head(cats) \in labels THEN <<post>> ELSE <<>>)
       \o Pushes(post, Tail(cats), labels)

RECURSIVE Group(_, _)
\* all.forEach(post => ...): the group array collected for one label list
Group(all, labels) ==
  IF all = <<>> THEN <<>>
  ELSE Pushes(Head(all), Head(all).category, labels) \o Group(Tail(all), labels)

Section(all, labels) == Slice(Group(all, labels), 0, SectionLimit)

\* recent taken from the first entry on: all.slice(0, 2)
RecentWithHighlight(all) == Slice(all, 0, 2)

Recent(all) == Slice(all, RecentFrom, RecentTo)

\* the payload of GET /home for the sorted list of published posts
HomeFeed(all) ==
  IF Len(all) = 0 THEN NoHome
  ELSE [highlight |-> <<all[1]>>,
        recent |-> Recent(all),
        tintuc |-> Section(all, tintucLabels),
        trainghiem |-> Section(all, trainghiemLabels),
        guongmat |-> Section(all, guongmatLabels),
        gochocthuat |-> Section(all, gochocthuatLabels),
        multimedia |-> Section(all, multimediaLabels)]

(***************************************************************************)
(* Inputs of the post lifecycle.                                           *)
(***************************************************************************)
PostBodies ==
  {EmptyBody,
   [title |-> <<"B">>, tags |-> <<"a">>, category |-> <<"tin-trong-nuoc", "anh">>,
    status |-> "published"],
   [status |-> "archived", authorId |-> "mallory"]}

Slugs == {"tin-trong-nuoc", "anh", "tin"}

Queries == {<<>>, <<"A">>, <<"b">>}

\* the tokens the server has issued to the registered users
IssuedTokens == {jwtSign(TokenPayload(u), JWT_SECRET) : u \in users}

\* what a client can put in the Authorization header
BearerHeaders == {Header(<<Word("Bearer"), t>>) : t \in IssuedTokens}

BadHeaders ==
  {NoHeader,
   Header(<<Word("")>>),
   Header(<<Word("Bearer")>>),
   Header(<<Word("Bearer"), Word("")>>),
   Header(<<Word("Bearer"), Word("garbage")>>)}
  \cup {Header(<<Word("Bearer"), jwtSign(TokenPayload(u), "guessed")>>) : u \in users}

Headers == {NoHeader} \cup BearerHeaders

\* the users registered before the run
InitialUsers == {NewUser(1, "alice", bcryptHash("pw1", "s1"))}

(***************************************************************************)
(* The post routes.  Each action is one request handled to its response.   *)
(***************************************************************************)
Reject401(route, header) ==
  /\ req' = Request(route, header, EmptyBody)
  /\ resp' = ErrorResponse(401, requireAuthError(header))
  /\ UNCHANGED <<users, posts, nextId, creator, pcs>>

\* POST /posts
CreatePost(header, body, now) ==
  IF ~requireAuth(header) THEN Reject401("POST /posts", header)
  ELSE /\ nextId <= MaxPosts
       /\ LET data == Merge(body, [authorId |-> reqUser(header).id])
              newPost == NewPost(data, nextId, now)
          IN  /\ posts' = posts \cup {newPost}
              /\ creator' = creator @@ (nextId :> reqUser(header).id)
              /\ resp' = MessageResponse("Created", <<newPost>>)
       /\ nextId' = nextId + 1
       /\ req' = Request("POST /posts", header, EmptyBody)
       /\ UNCHANGED <<users, pcs>>

\* PUT /posts/:id
UpdatePost(header, id, body) ==
  IF ~requireAuth(header) THEN Reject401("PUT /posts/:id", header)
  ELSE /\ req' = Request("PUT /posts/:id", header, EmptyBody)
       /\ IF ~id.valid
          THEN resp' = ErrorResponse(500, "Server error") /\ posts' = posts
          ELSE /\ posts' = UpdateById(id, body)
               /\ resp' = DocsResponse(Updated(id, body))
       /\ UNCHANGED <<users, nextId, creator, pcs>>

\* DELETE /posts/:id
DeletePost(header, id) ==
  IF ~requireAuth(header) THEN Reject401("DELETE /posts/:id", header)
  ELSE /\ req' = Request("DELETE /posts/:id", header, EmptyBody)
       /\ IF ~id.valid
          THEN resp' = ErrorResponse(500, "Server error") /\ posts' = posts
          ELSE /\ posts' = posts \ findById(id)
               /\ resp' = MessageResponse("Deleted", <<>>)
       /\ UNCHANGED <<users, nextId, creator, pcs>>

\* the update document of the two status routes
PublishUpdate == [status |-> "published"]

UnpublishUpdate == [status |-> "draft"]

\* PATCH /posts/:id/publish
PublishPost(header, id) ==
  IF ~requireAuth(header) THEN Reject401("PATCH /posts/:id/publish", header)
  ELSE /\ req' = Request("PATCH /posts/:id/publish", header, EmptyBody)
       /\ IF ~id.valid
          THEN resp' = ErrorResponse(500, "Server error") /\ posts' = posts
          ELSE /\ posts' = UpdateById(id, PublishUpdate)
               /\ resp' = DocsResponse(Updated(id, PublishUpdate))
       /\ UNCHANGED <<users, nextId, creator, pcs>>

\* PATCH /posts/:id/unpublish
UnpublishPost(header, id) ==
  IF ~requireAuth(header) THEN Reject401("PATCH /posts/:id/unpublish", header)
  ELSE /\ req' = Request("PATCH /posts/:id/unpublish", header, EmptyBody)
       /\ IF ~id.valid
          THEN resp' = ErrorResponse(500, "Server error") /\ posts' = posts
          ELSE /\ posts' = UpdateById(id, UnpublishUpdate)
               /\ resp' = DocsResponse(Updated(id, UnpublishUpdate))
       /\ UNCHANGED <<users, nextId, creator, pcs>>

(***************************************************************************)
(* The public routes: no requireAuth, no write.                            *)
(***************************************************************************)
Read(route, response) ==
  /\ req' = Request(route, NoHeader, EmptyBody)
  /\ resp' = response
  /\ UNCHANGED <<users, posts, nextId, creator, pcs>>

\* GET /public/posts
PublicPosts == \E all \in NewestFirst(Published) : Read("GET /public/posts", DocsResponse(all))

\* the response of GET /public/posts/:id
PublicPostResponse(id) ==
  IF ~id.valid THEN ErrorResponse(400, "Invalid post id")
  ELSE IF findById(id) = {} \/ (CHOOSE p \in posts : p._id = id.oid).status # "published"
  THEN ErrorResponse(404, "Post not found")
  ELSE DocsResponse(<<CHOOSE p \in posts : p._id = id.oid>>)

\* GET /public/posts/:id
PublicPost(id) == Read("GET /public/posts/:id", PublicPostResponse(id))

\* GET /public/category/:slug
PublicCategory(slug) ==
  \E found \in NewestFirst({p \in posts : CategoryFilter(p, slug)}) :
    Read("GET /public/category/:slug", DocsResponse(found))

\* GET /public/search
PublicSearch(q) ==
  \E found \in AnyOrder({p \in posts : SearchFilter(p, q)}) :
    Read("GET /public/search", DocsResponse(found))

\* GET /home
Home == \E all \in NewestFirst(Published) : Read("GET /home", HomeResponse(HomeFeed(all)))

\* the values Date.now() can have: the latest stored creation time or a later
\* one (the routes read creation times only to compare them)
Now ==
  IF posts = {} THEN {1}
  ELSE LET latest == CHOOSE t \in {p.createdAt : p \in posts} :
                       \A p \in posts : p.createdAt <= t
       IN  {latest, latest + 1}

Idle == [i \in 1..MaxProcs |-> [pc |-> "idle", body |-> EmptyBody]]

Init ==
  /\ users = InitialUsers
  /\ posts = {}
  /\ nextId = 1
  /\ creator = << >>
  /\ pcs = Idle
  /\ req = Request("", NoHeader, EmptyBody)
  /\ resp = Pending

Next ==
  \/ \E h \in Headers, b \in PostBodies, now \in Now : CreatePost(h, b, now)
  \/ \E h \in Headers, id \in ParamIds(MaxPosts), b \in PostBodies : UpdatePost(h, id, b)
  \/ \E h \in Headers, id \in ParamIds(MaxPosts) : DeletePost(h, id)
  \/ \E h \in Headers, id \in ParamIds(MaxPosts) : PublishPost(h, id)
  \/ \E h \in Headers, id \in ParamIds(MaxPosts) : UnpublishPost(h, id)
  \/ PublicPosts
  \/ \E id \in ParamIds(MaxPosts) : PublicPost(id)
  \/ \E slug \in Slugs : PublicCategory(slug)
  \/ \E q \in Queries : PublicSearch(q)
  \/ Home

Spec == Init /\ [][Next]_vars

(***************************************************************************)
(* The authentication gate in front of the five mutation routes, with      *)
(* every kind of Authorization header.                                     *)
(***************************************************************************)
GateHeaders == BadHeaders \cup BearerHeaders

GateBodies == {EmptyBody, [title |-> <<"B">>, status |-> "published"]}

NextGate ==
  \/ \E h \in GateHeaders, b \in GateBodies, now \in Now : CreatePost(h, b, now)
  \/ \E h \in GateHeaders, id \in ParamIds(MaxPosts), b \in GateBodies : UpdatePost(h, id, b)
  \/ \E h \in GateHeaders, id \in ParamIds(MaxPosts) : DeletePost(h, id)
  \/ \E h \in GateHeaders, id \in ParamIds(MaxPosts) : PublishPost(h, id)
  \/ \E h \in GateHeaders, id \in ParamIds(MaxPosts) : UnpublishPost(h, id)

SpecGate == Init /\ [][NextGate]_vars

MutationRoutes ==
  {"POST /posts", "PUT /posts/:id", "DELETE /posts/:id",
   "PATCH /posts/:id/publish", "PATCH /posts/:id/unpublish"}

PublicRoutes ==
  {"GET /public/posts", "GET /public/posts/:id", "GET /public/category/:slug",
   "GET /public/search", "GET /home"}

\* the header carries a token that verifies under the server secret
CarriesVerifiedToken(header) ==
  /\ header.present
  /\ Len(header.segs) >= 2
  /\ IsJwt(header.segs[2])
  /\ header.segs[2].key = JWT_SECRET

\* C1: a mutation request whose header is missing, has no token segment or
\* carries a token that does not verify under the server secret is answered
\* 401 and leaves the stored posts as they were; a mutation request that is
\* not answered 401 carried a token that verifies.
C1_UnauthenticatedMutationRejected ==
  [][req'.route \in MutationRoutes =>
       /\ ~CarriesVerifiedToken(req'.header) =>
            (resp'.status = 401 /\ posts' = posts)
       /\ resp'.status # 401 => CarriesVerifiedToken(req'.header)]_vars

\* a forged token was presented to DELETE while posts were stored
C1_Witness ==
  /\ req.route = "DELETE /posts/:id"
  /\ req.header.present
  /\ Len(req.header.segs) >= 2
  /\ IsJwt(req.header.segs[2])
  /\ req.header.segs[2].key # JWT_SECRET
  /\ resp.status = 401
  /\ posts # {}

\* the fields of a post other than its status
SameButStatus(p, q) ==
  /\ DOMAIN p = DOMAIN q
  /\ \A f \in DOMAIN p \ {"status"} : p[f] = q[f]

\* the step changed at most the status of the post the response returns,
\* which is now st
OnlyStatusSet(st) ==
  /\ \A q \in posts' : \E p \in posts : p._id = q._id /\ SameButStatus(p, q)
  /\ \A p \in posts : \E q \in posts' : p._id = q._id
  /\ \A p \in posts : \A q \in posts' :
       (p._id = q._id /\ (resp'.docs = <<>> \/ resp'.docs[1]._id # p._id)) => p = q
  /\ resp'.docs # <<>> => (resp'.docs[1].status = st /\ resp'.docs[1] \in posts')

\* C4: publish sets the status of the addressed post to published, unpublish
\* sets it to draft, and neither changes any other field of that post nor any
\* other post.
C4_StatusRoutesTouchOnlyStatus ==
  [][/\ (req'.route = "PATCH /posts/:id/publish" /\ resp'.status = 200)
          => OnlyStatusSet("published")
     /\ (req'.route = "PATCH /posts/:id/unpublish" /\ resp'.status = 200)
          => OnlyStatusSet("draft")]_vars

\* a published post with a title and tags was unpublished
C4_Witness ==
  /\ req.route = "PATCH /posts/:id/unpublish"
  /\ resp.status = 200
  /\ resp.docs # <<>>
  /\ Has(resp.docs[1], "title")
  /\ resp.docs[1].status = "draft"
  /\ Cardinality(posts) = 2

\* C5: the authorId of every stored post is the id in the token of the
\* principal that created it.
C5_AuthorIdIsCreator ==
  \A p \in posts : p.authorId = creator[p._id]

\* C6: the status of every stored post is draft or published.
C6_StatusIsDraftOrPublished ==
  \A p \in posts : p.status \in {"draft", "published"}

\* the posts a response carries
ResponsePosts ==
  Range(resp.docs) \cup Range(resp.home.highlight) \cup Range(resp.home.recent)
  \cup Range(resp.home.tintuc) \cup Range(resp.home.trainghiem)
  \cup Range(resp.home.guongmat) \cup Range(resp.home.gochocthuat)
  \cup Range(resp.home.multimedia)

\* C10: every post in the response of a public route is a stored post whose
\* status is published when the response is sent.
C10_PublicReadsOnlyPublished ==
  req.route \in PublicRoutes =>
    \A d \in ResponsePosts : d \in posts /\ d.status = "published"

\* a search returned a post while a post with tags that is not published
\* is stored
C10_Witness ==
  /\ req.route = "GET /public/search"
  /\ resp.docs # <<>>
  /\ \E p \in posts : p.status = "draft" /\ Has(p, "tags")

(***************************************************************************)
(* Registration and login.  A registration is suspended between its        *)
(* findOne and its save, so that several of them interleave.               *)
(***************************************************************************)
AuthBodies ==
  {[username |-> "alice", password |-> "pw1"],
   [username |-> "alice", password |-> "pw2"],
   [username |-> "bob", password |-> "pw1"],
   [username |-> "alice", password |-> ""],
   [username |-> "alice"],
   [password |-> "pw1"]}

\* !x for a request field that is a string or undefined
Falsy(body, f) == ~Has(body, f) \/ body[f] = ""

\* User.findOne({username})
findOne(username) == {u \in users : u.username = username}

\* the unique index on username rejects the insert (E11000)
DuplicateKey(username) == \E u \in users : u.username = username

\* POST /auth/register up to the await of bcrypt.hash
RegisterFind(i, body) ==
  /\ pcs[i].pc = "idle"
  /\ req' = Request("POST /auth/register", NoHeader, body)
  /\ IF Falsy(body, "username") \/ Falsy(body, "password")
     THEN resp' = ErrorResponse(400, "username & password required") /\ pcs' = pcs
     ELSE IF findOne(body.username) # {}
     THEN resp' = ErrorResponse(400, "username already exists") /\ pcs' = pcs
     ELSE resp' = Pending /\ pcs' = [pcs EXCEPT ![i] = [pc |-> "save", body |-> body]]
  /\ UNCHANGED <<users, posts, nextId, creator>>

\* POST /auth/register from bcrypt.hash to the response
RegisterSave(i, salt) ==
  /\ pcs[i].pc = "save"
  /\ req' = Request("POST /auth/register", NoHeader, pcs[i].body)
  /\ pcs' = [pcs EXCEPT ![i] = [pc |-> "idle", body |-> EmptyBody]]
  /\ LET body == pcs[i].body
         user == NewUser(Cardinality(users) + 1, body.username,
                         bcryptHash(body.password, salt))
     IN  IF DuplicateKey(body.username)
         THEN resp' = ErrorResponse(500, "Server error") /\ users' = users
         ELSE /\ users' = users \cup {user}
              /\ resp' = AuthResponse("User created", user,
                                      jwtSign(TokenPayload(user), JWT_SECRET))
  /\ UNCHANGED <<posts, nextId, creator>>

\* bcrypt.compare rejects when the data is not a string
bcryptCompareThrows(body) == ~Has(body, "password")

bcryptCompare(password, hash) == hash[3] = password

\* the response of POST /auth/login
LoginResponse(body) ==
  IF ~Has(body, "username") \/ findOne(body.username) = {}
  THEN ErrorResponse(400, "User not found")
  ELSE LET user == CHOOSE u \in users : u.username = body.username
       IN  IF bcryptCompareThrows(body) THEN ErrorResponse(500, "Server error")
           ELSE IF ~bcryptCompare(body.password, user.passwordHash)
           THEN ErrorResponse(400, "Wrong password")
           ELSE AuthResponse("Login success", user,
                             jwtSign(TokenPayload(user), JWT_SECRET))

\* POST /auth/login
Login(body) ==
  /\ req' = Request("POST /auth/login", NoHeader, body)
  /\ resp' = LoginResponse(body)
  /\ UNCHANGED <<users, posts, nextId, creator, pcs>>

InitAuth ==
  /\ users = {}
  /\ posts = {}
  /\ nextId = 1
  /\ creator = << >>
  /\ pcs = Idle
  /\ req = Request("", NoHeader, EmptyBody)
  /\ resp = Pending

NextAuth ==
  \/ \E i \in 1..MaxProcs, b \in AuthBodies : RegisterFind(i, b)
  \/ \E i \in 1..MaxProcs, salt \in Salts : RegisterSave(i, salt)
  \/ \E b \in AuthBodies : Login(b)

SpecAuth == InitAuth /\ [][NextAuth]_vars

\* C2: there is one user record per username, and a registration with a
\* non-empty username and password is answered either with the created user
\* or with 400 "username already exists".
C2_RegisterOnceElseConflict ==
  /\ \A u \in users : \A v \in users : u.username = v.username => u = v
  /\ (/\ req.route = "POST /auth/register"
      /\ resp.status # 0
      /\ ~Falsy(req.body, "username")
      /\ ~Falsy(req.body, "password"))
     => \/ resp.status = 200 /\ resp.message = "User created"
        \/ resp.status = 400 /\ resp.error = "username already exists"

\* C3: no response carries a user's password hash.
C3_NoPasswordHashInResponse ==
  \A u \in Range(resp.user) : ~Has(u, "passwordHash")

\* C9: a login that names an existing user without that user's password is
\* answered 400 and carries no token.
C9_WrongPasswordIs400 ==
  (/\ req.route = "POST /auth/login"
   /\ Has(req.body, "username")
   /\ \E u \in users :
        /\ u.username = req.body.username
        /\ (~Has(req.body, "password") \/ req.body.password # u.passwordHash[3]))
  => (resp.status = 400 /\ resp.token = <<>>)

(***************************************************************************)
(* The home feed over stored posts drawn from bounded sets.  The posts are *)
(* numbered in the order of their creation: each is created at the same    *)
(* time as the one before it or later, and at most MaxTied posts are       *)
(* created at the same time.                                               *)
(***************************************************************************)
FeedCategories ==
  {<<"tin-trong-nuoc">>, <<"am-thuc">>, <<"tin-trong-nuoc", "anh">>,
   <<"tin-trong-nuoc", "tin-the-gioi">>}

\* a published post of each category, and a draft
FeedInputs ==
  {[category |-> c, status |-> "published"] : c \in FeedCategories}
  \cup {[category |-> <<"tin-trong-nuoc">>, status |-> "draft"]}

RECURSIVE StampOf(_, _)
\* the creation time of the i-th post when post k is created later[k] after
\* post k - 1
StampOf(later, i) == IF i = 1 THEN 1 ELSE StampOf(later, i - 1) + later[i]

FeedPost(in, oid, stamp) ==
  NewPost([category |-> in.category, status |-> in.status, authorId |-> "u1"],
          oid, stamp)

InitFeed ==
  /\ users = InitialUsers
  /\ \E n \in 0..MaxFeedPosts : \E in \in [1..n -> FeedInputs] :
     \E later \in [1..n -> {0, 1}] :
       /\ n >= 1 => later[1] = 0
       /\ \A i \in 1..n :
            Cardinality({j \in 1..n : StampOf(later, j) = StampOf(later, i)}) <= MaxTied
       /\ posts = {FeedPost(in[i], i, StampOf(later, i)) : i \in 1..n}
       /\ nextId = n + 1
       /\ creator = [i \in 1..n |-> "u1"]
  /\ pcs = Idle
  /\ req = Request("", NoHeader, EmptyBody)
  /\ resp = Pending

NextFeed == Home

SpecFeed == InitFeed /\ [][NextFeed]_vars

SectionLabels ==
  [tintuc |-> tintucLabels, trainghiem |-> trainghiemLabels,
   guongmat |-> guongmatLabels, gochocthuat |-> gochocthuatLabels,
   multimedia |-> multimediaLabels]

\* the posts of all, in order, that carry at least one label of the group
Qualifying(all, labels) ==
  LET Test(p) == Range(p.category) \cap labels # {}
  IN  SelectSeq(all, Test)

FirstN(s, n) == IF Len(s) <= n THEN s ELSE SubSeq(s, 1, n)

\* C7: every section of the home feed is the first 4 entries of the
\* newest-first list of the published posts that carry a label of the
\* section's group, each such post once.
C7_SectionIsFirstFourQualifying ==
  req.route = "GET /home" =>
    \E all \in NewestFirst(Published) :
      \A sec \in DOMAIN SectionLabels :
        resp.home[sec] = FirstN(Qualifying(all, SectionLabels[sec]), 4)

\* the three posts of the example, newest first
IsExample(p1, p2, p3) ==
  /\ Published = {p1, p2, p3}
  /\ p1.createdAt > p2.createdAt
  /\ p2.createdAt > p3.createdAt
  /\ p1.category = <<"tin-trong-nuoc">>
  /\ p2.category = <<"am-thuc">>
  /\ p3.category = <<"tin-trong-nuoc", "anh">>

\* C8: with no published post the home feed has no highlight and empty lists;
\* otherwise the highlight is the newest published post and recent is the
\* second and third newest, in that order; for the three posts of the example
\* the feed is highlight P1, recent P2 P3, tintuc P1 P3, multimedia P3.
C8_HighlightAndRecent ==
  req.route = "GET /home" =>
    /\ Published = {} => resp.home = NoHome
    /\ Published # {} =>
         \E all \in NewestFirst(Published) :
           /\ resp.home.highlight = <<all[1]>>
           /\ Len(resp.home.recent) = (IF Len(all) >= 3 THEN 2 ELSE Len(all) - 1)
           /\ \A i \in 1..Len(resp.home.recent) : resp.home.recent[i] = all[i + 1]
    /\ \A p1 \in posts : \A p2 \in posts : \A p3 \in posts :
         IsExample(p1, p2, p3) =>
           /\ resp.home.highlight = <<p1>>
           /\ resp.home.recent = <<p2, p3>>
           /\ resp.home.tintuc = <<p1, p3>>
           /\ resp.home.multimedia = <<p3>>

\* the feed of the three posts of the example, beside a draft, was served
C8_Witness ==
  /\ req.route = "GET /home"
  /\ \E p1 \in posts : \E p2 \in posts : \E p3 \in posts :
       IsExample(p1, p2, p3) /\ resp.home.recent = <<p2, p3>>
  /\ Cardinality(posts) = 4

====
